---- MODULE Spec2Model ----
(***************************************************************************)
(* Invitation-token lifecycle of src/src/hackathons/api.py: the issuance   *)
(* handlers (create_hackathon, add_user_to_hackathon, load_txt,            *)
(* send_code_to_email), the CSV registry upload                            *)
(* (upload_emails_to_hackathon) and the redemption handler                 *)
(* (join_hackathon).                                                       *)
(*                                                                         *)
(* The database runs in Django's default autocommit mode: every ORM call   *)
(* (get, get_or_create, create, save, add) is one committed statement.     *)
(* The issuance handlers are modelled as one action each.  join_hackathon  *)
(* is modelled in its three database round trips, so that concurrent       *)
(* requests interleave between the SELECT of the token row and the UPDATE  *)
(* that clears is_active.                                                  *)
(*                                                                         *)
(* Strings are records [type, chars] with chars a sequence of             *)
(* one-character strings, so that str.strip() is computed and not assumed  *)
(* and a str is told from a bytes object.  A JWT is modelled by the claim  *)
(* set it encodes (HS256 over a JSON payload is injective on the payload   *)
(* for a fixed key); no handler ever decodes a token.                      *)
(***************************************************************************)
EXTENDS Naturals, Sequences, FiniteSets, TLC

(* ------------------------------ bounds -------------------------------- *)

\* Largest number of hackathon rows created.
MaxHackathons == 1

\* Largest number of jwt.encode calls, hence of clock readings and tokens.
MaxClock == 2

\* Longest participants list, line file or CSV file.
MaxBatch == 2

\* Number of join_hackathon requests served.
MaxRequests == 2

(* --------------------------- the environment -------------------------- *)

\* accounts.models.Account rows.  Account 1 is an organizer with email "a",
\* account 2 is an ordinary user with email "b".
Accounts == {1, 2}

\* What `participant_acc = None` holds after Account.DoesNotExist.
None == 0

\* A Python str and a Python bytes object, each with its characters.
Str(chars) == [type |-> "str", chars |-> chars]

Bytes(chars) == [type |-> "bytes", chars |-> chars]

AccountEmail(acc) == IF acc = 1 THEN Str(<<"a">>) ELSE Str(<<"b">>)

is_organizator(acc) == acc = 1

\* Email strings a request body may carry.
InputEmails == {Str(<<"a">>), Str(<<"b">>)}

\* Account.objects.get(email=participant), None when DoesNotExist is caught.
\* A bytes value is compared by its repr ("b'...'"), which is no account's
\* email: a Bytes record equals no Str record.
AccountByEmail(email) ==
    IF \E acc \in Accounts : AccountEmail(acc) = email
    THEN CHOOSE acc \in Accounts : AccountEmail(acc) = email
    ELSE None

\* What Token.objects.create / send_mail do for one recipient: both succeed,
\* create raises, or create succeeds and send_mail raises.
Fates == {"ok", "create_raises", "send_raises"}

(* ------------------------------- state -------------------------------- *)

VARIABLES
    hackathons,  \* Hackathon table: sequence (index = id) of
                 \*   [creator, participants, emails]
    emails,      \* Email table: set of email strings (unique rows)
    tokens,      \* Token table: sequence (index = row id) of [token, is_active]
    outbox,      \* send_mail calls made so far: sequence of [to, token, ok]
    now,         \* datetime.utcnow(), read and advanced by every jwt.encode
    req,         \* join_hackathon requests in flight, one per worker
    last,        \* the response a handler has just returned, with the
                 \* per-recipient trace of what it did, until it is sent
    presented,   \* history: Token row ids some join request has looked up
    joined       \* history: the 200 responses of join_hackathon, each
                 \*   [tkn, user, hackathon_id, request]

vars == <<hackathons, emails, tokens, outbox, now, req, last, presented,
          joined>>

Requests == 1..MaxRequests

history == <<presented, joined>>

\* The database part of the state, threaded through a handler's statements.
DB == [hackathons |-> hackathons, emails |-> emails, tokens |-> tokens,
       outbox |-> outbox, now |-> now, items |-> <<>>]

Commit(db) ==
    /\ hackathons' = db.hackathons
    /\ emails' = db.emails
    /\ tokens' = db.tokens
    /\ outbox' = db.outbox
    /\ now' = db.now

Exists(hid) == hid \in 1..Len(hackathons)

\* Hackathon ids a request may name: every stored one and one that is not.
HackathonIds == 1..(Len(hackathons) + 1)

\* What a handler returns, with a record of what it did: `items` has one
\* entry per recipient it reached, `batch` the list or file it was given,
\* `user` and `hackathon_id` the caller and the event of the request where
\* the handler resolved them.
BatchResponse(op, status, details, items, batch) ==
    [op |-> op, status |-> status, details |-> details, items |-> items,
     batch |-> batch, user |-> None, hackathon_id |-> 0]

\* The response to a request of `user` about the event `hackathon_id`.
From(response, user, hackathon_id) ==
    [response EXCEPT !.user = user, !.hackathon_id = hackathon_id]

Response(op, status, details, items) ==
    BatchResponse(op, status, details, items, <<>>)

\* No response is waiting to be sent.
NoResponse == Response("none", 0, "", <<>>)

IdleRequest ==
    [pc |-> "idle", user |-> None, hackathon_id |-> 0, token |-> [none |-> TRUE],
     tkn |-> 0, active |-> FALSE, first |-> FALSE]

Init ==
    /\ hackathons = <<>>
    /\ emails = {}
    /\ tokens = <<>>
    /\ outbox = <<>>
    /\ now = 0
    /\ req = [r \in Requests |-> IdleRequest]
    /\ last = NoResponse
    /\ presented = {}
    /\ joined = {}

(* ------------------------- shared statements -------------------------- *)

\* Email.objects.get_or_create(email=...) followed by hackathon.emails.add.
GetOrCreateAndLink(db, hid, email) ==
    [db EXCEPT !.emails = @ \cup {email},
               !.hackathons[hid].emails = @ \cup {email}]

\* A create that goes by recipient as update_or_create would: a row already
\* held for the same email is overwritten with the new token, active.
TokenCreate_Upsert(table, encoded_jwt) ==
    IF \E i \in 1..Len(table) : table[i].token.email = encoded_jwt.email
    THEN LET i == CHOOSE i \in 1..Len(table) :
                    table[i].token.email = encoded_jwt.email
         IN  [table EXCEPT ![i] = [token |-> encoded_jwt, is_active |-> TRUE]]
    ELSE Append(table, [token |-> encoded_jwt, is_active |-> TRUE])

\* Token.objects.create(token=encoded_jwt, is_active=True)
TokenCreate(table, encoded_jwt) ==
    Append(table, [token |-> encoded_jwt, is_active |-> TRUE])

\* send_mail(..., recipient_list=[to], fail_silently=False): the call is
\* recorded whether or not it raises.
SendMail(box, to, encoded_jwt, ok) ==
    Append(box, [to |-> to, token |-> encoded_jwt, ok |-> ok])

Item(email, encoded_jwt, outcome) ==
    [email |-> email, token |-> encoded_jwt, outcome |-> outcome]

\* The two statements of the try block swapped: the mail goes out before the
\* token row is written, so it has gone out when create raises.
TryCreateAndSend_MailFirst(db, to, encoded_jwt, fate) ==
    IF fate = "create_raises"
    THEN [db EXCEPT
            !.outbox = SendMail(@, to, encoded_jwt, TRUE),
            !.items = Append(@, Item(to, encoded_jwt, "create_raised"))]
    ELSE [db EXCEPT
            !.tokens = TokenCreate(@, encoded_jwt),
            !.outbox = SendMail(@, to, encoded_jwt, fate = "ok"),
            !.items = Append(@, Item(to, encoded_jwt,
                         IF fate = "ok" THEN "sent" ELSE "send_raised"))]

\* The body of `try: Token.objects.create(...); send_mail(...)`: an
\* exception of create leaves the block before send_mail is called.
TryCreateAndSend(db, to, encoded_jwt, fate) ==
    IF fate = "create_raises"
    THEN [db EXCEPT !.items = Append(@, Item(to, encoded_jwt, "create_raised"))]
    ELSE [db EXCEPT
            !.tokens = TokenCreate(@, encoded_jwt),
            !.outbox = SendMail(@, to, encoded_jwt, fate = "ok"),
            !.items = Append(@, Item(to, encoded_jwt,
                         IF fate = "ok" THEN "sent" ELSE "send_raised"))]

(* --------------------------- create_hackathon ------------------------- *)

\* The test left out: no recipient is taken for the creator.
IsCreator_Never(participant_acc, hackathon) == FALSE

\* if participant_acc == hackathon.creator: continue
IsCreator(participant_acc, hackathon) == participant_acc = hackathon.creator

\* An encoder that serialises a bytes value as well as a str.
jwt_encode_AnyPayload(payload) == [raised |-> FALSE, token |-> payload]

\* jwt.encode(payload, SECRET_KEY, algorithm="HS256"): the payload is
\* serialised with json.dumps, which raises TypeError for a bytes value.
jwt_encode(payload) ==
    [raised |-> payload.email.type # "str", token |-> payload]

\* The loop with the try block around it instead of inside it: the first
\* exception of create or send_mail ends the batch.
RECURSIVE CreateLoop_AbortOnFailure(_, _, _, _, _)
CreateLoop_AbortOnFailure(db, hid, participants, fates, k) ==
    IF k > Len(participants) THEN db
    ELSE
        LET participant == participants[k]
            participant_acc == AccountByEmail(participant)
            db1 == GetOrCreateAndLink(db, hid, participant)
            encoded_jwt == jwt_encode([createdAt |-> db1.now, id |-> hid,
                                       email |-> participant]).token
            db2 == [db1 EXCEPT !.now = @ + 1]
        IN  IF IsCreator(participant_acc, db2.hackathons[hid])
            THEN CreateLoop_AbortOnFailure(
                    [db2 EXCEPT !.items = Append(@,
                        Item(participant, encoded_jwt, "skipped_creator"))],
                    hid, participants, fates, k + 1)
            ELSE IF fates[k] # "ok"
            THEN TryCreateAndSend(db2, participant, encoded_jwt, fates[k])
            ELSE CreateLoop_AbortOnFailure(
                    TryCreateAndSend(db2, participant, encoded_jwt, fates[k]),
                    hid, participants, fates, k + 1)

\* for participant in body_dict["participants"]: ...
RECURSIVE CreateLoop(_, _, _, _, _)
CreateLoop(db, hid, participants, fates, k) ==
    IF k > Len(participants) THEN db
    ELSE
        LET participant == participants[k]
            participant_acc == AccountByEmail(participant)
            db1 == GetOrCreateAndLink(db, hid, participant)
            encoded_jwt == jwt_encode([createdAt |-> db1.now, id |-> hid,
                                       email |-> participant]).token
            db2 == [db1 EXCEPT !.now = @ + 1]
        IN  IF IsCreator(participant_acc, db2.hackathons[hid])
            THEN CreateLoop(
                    [db2 EXCEPT !.items = Append(@,
                        Item(participant, encoded_jwt, "skipped_creator"))],
                    hid, participants, fates, k + 1)
            ELSE CreateLoop(
                    TryCreateAndSend(db2, participant, encoded_jwt, fates[k]),
                    hid, participants, fates, k + 1)

BoundedSeq(S, n) == UNION {[1..m -> S] : m \in 0..n}

CreateHackathon ==
    /\ last = NoResponse
    /\ \E user \in Accounts :
        IF ~is_organizator(user)
        THEN /\ last' = Response("create_hackathon", 403,
                    "You are not organizator and you can't create hackathons",
                    <<>>)
             /\ UNCHANGED <<hackathons, emails, tokens, outbox, now, req, history>>
        ELSE /\ Len(hackathons) < MaxHackathons
             /\ \E participants \in BoundedSeq(InputEmails, MaxBatch) :
                \E fates \in [1..Len(participants) -> Fates] :
                LET hid == Len(hackathons) + 1
                    db0 == [DB EXCEPT !.hackathons = Append(@,
                              [creator |-> user, participants |-> {},
                               emails |-> {}])]
                    db == CreateLoop(db0, hid, participants, fates, 1)
                IN  /\ db.now <= MaxClock
                    /\ Commit(db)
                    /\ last' = BatchResponse("create_hackathon", 201, "",
                                             db.items, participants)
                    /\ UNCHANGED <<req, history>>

(* ------------------------ add_user_to_hackathon ----------------------- *)

\* The test left out: every caller is let through.
NotCreator_Never(hackathon, user) == FALSE

\* if hackathon.creator != me: return 403
NotCreator(hackathon, user) == hackathon.creator # user

AddUserToHackathon ==
    /\ last = NoResponse
    /\ \E me \in Accounts, hackathon_id \in HackathonIds, email \in InputEmails :
        IF ~Exists(hackathon_id)
        THEN /\ last' = Response("add_user_to_hackathon", 404, "Not Found", <<>>)
             /\ UNCHANGED <<hackathons, emails, tokens, outbox, now, req, history>>
        ELSE IF NotCreator(hackathons[hackathon_id], me)
        THEN /\ last' = From(Response("add_user_to_hackathon", 403,
                    "You are not creator and you can't edit this hackathon",
                    <<>>), me, hackathon_id)
             /\ UNCHANGED <<hackathons, emails, tokens, outbox, now, req, history>>
        ELSE IF AccountEmail(hackathons[hackathon_id].creator) = email
        THEN /\ last' = From(Response("add_user_to_hackathon", 400,
                    "user is creator of the hackathon", <<>>),
                    me, hackathon_id)
             /\ UNCHANGED <<hackathons, emails, tokens, outbox, now, req, history>>
        ELSE \E fate \in Fates :
            LET db1 == GetOrCreateAndLink(DB, hackathon_id, email)
                encoded_jwt == jwt_encode([createdAt |-> db1.now,
                                           hackathon_id |-> hackathon_id,
                                           email |-> email]).token
                db2 == [db1 EXCEPT !.now = @ + 1]
                db == TryCreateAndSend(db2, email, encoded_jwt, fate)
            IN  /\ db.now <= MaxClock
                /\ Commit(db)
                /\ last' = From(
                           IF fate = "ok"
                           THEN Response("add_user_to_hackathon", 201, "",
                                         db.items)
                           ELSE Response("add_user_to_hackathon", 500,
                                         "Failed to send email", db.items),
                           me, hackathon_id)
                /\ UNCHANGED <<req, history>>

(* ------------------------------ load_txt ------------------------------ *)

\* Lines an uploaded file yields when iterated: bytes objects, each with
\* its line end.
FileLines == {Bytes(<<"a", "\n">>), Bytes(<<"b", "\n">>)}

\* The loop of load_txt: db.raised is set when a statement outside the
\* try blocks raises, which ends the handler.
RECURSIVE LoadLoop(_, _, _, _, _)
LoadLoop(db, hid, file, fates, n) ==
    IF n > Len(file) THEN db
    ELSE
        LET i == file[n]
            participant_acc == AccountByEmail(i)
            enc == jwt_encode([num |-> n - 1, createdAt |-> db.now,
                               id |-> hid, email |-> i])
            db2 == [db EXCEPT !.now = @ + 1]
        IN  IF enc.raised
            THEN [db EXCEPT !.raised = TRUE]
            ELSE IF IsCreator(participant_acc, db2.hackathons[hid])
            THEN LoadLoop(
                    [db2 EXCEPT !.items = Append(@,
                        Item(i, enc.token, "skipped_creator"))],
                    hid, file, fates, n + 1)
            ELSE LoadLoop(TryCreateAndSend(db2, i, enc.token, fates[n]),
                          hid, file, fates, n + 1)

LoadTxt ==
    /\ last = NoResponse
    /\ \E me \in Accounts, id \in HackathonIds :
        IF ~Exists(id)
        THEN /\ last' = Response("load_txt", 404, "Not Found", <<>>)
             /\ UNCHANGED <<hackathons, emails, tokens, outbox, now, req, history>>
        ELSE IF me = hackathons[id].creator
        THEN \E file \in BoundedSeq(FileLines, MaxBatch) :
             /\ last' = From(BatchResponse("load_txt", 200,
                                "you have no access", <<>>, file), me, id)
             /\ UNCHANGED <<hackathons, emails, tokens, outbox, now, req, history>>
        ELSE \E file \in BoundedSeq(FileLines, MaxBatch) :
             \E fates \in [1..Len(file) -> Fates] :
            LET db == LoadLoop([raised |-> FALSE] @@ DB, id, file, fates, 1)
            IN  /\ db.now <= MaxClock
                /\ Commit(db)
                /\ last' = From(
                           IF db.raised
                           THEN BatchResponse("load_txt", 500, "TypeError",
                                              db.items, file)
                           ELSE BatchResponse("load_txt", 200, "None",
                                              db.items, file),
                           me, id)
                /\ UNCHANGED <<req, history>>

(* -------------------------- send_code_to_email ------------------------ *)

\* random.randint(100000, 999999)
CodeMin == 100000

CodeMax == 999999

\* The codes drawn: the two ends of the range stand for all of it.
Codes == {CodeMin, CodeMax}

\* Only the hackathon is looked up: the two tests of the email left out.
FindEmail_EventOnly(hackathon_id, email) ==
    IF ~Exists(hackathon_id) THEN "Not Found" ELSE "found"

\* get_object_or_404(Hackathon, id=hackathon_id);
\* get_object_or_404(Email, email=email_schema.email);
\* if email_obj not in hackathon.emails.all(): return ..., 404
FindEmail(hackathon_id, email) ==
    IF ~Exists(hackathon_id) \/ email \notin emails THEN "Not Found"
    ELSE IF email \notin hackathons[hackathon_id].emails
    THEN "Email not found in hackathon"
    ELSE "found"

SendCodeToEmail ==
    /\ last = NoResponse
    /\ \E hackathon_id \in HackathonIds, email \in InputEmails :
        IF FindEmail(hackathon_id, email) # "found"
        THEN \* the second 404 is returned as (body, status), the reverse of
             \* the framework's order
             /\ last' = From(BatchResponse("send_code_to_email", 404,
                                FindEmail(hackathon_id, email), <<>>,
                                <<email>>), None, hackathon_id)
             /\ UNCHANGED <<hackathons, emails, tokens, outbox, now, req, history>>
        ELSE \E confirmation_code \in Codes, fate \in Fates :
            LET encoded_jwt == jwt_encode(
                    [confirmation_code |-> confirmation_code,
                     email |-> email, createdAt |-> now]).token
            IN  /\ now + 1 <= MaxClock
                /\ now' = now + 1
                /\ IF fate = "create_raises"
                   THEN /\ last' = From(BatchResponse("send_code_to_email",
                               500, "Failed to create token",
                               <<Item(email, encoded_jwt, "create_raised")>>,
                               <<email>>), None, hackathon_id)
                        /\ UNCHANGED <<tokens, outbox>>
                   ELSE /\ tokens' = TokenCreate(tokens, encoded_jwt)
                        /\ outbox' = SendMail(outbox, email, encoded_jwt,
                                              fate = "ok")
                        /\ last' = From(
                             IF fate = "ok"
                             THEN BatchResponse("send_code_to_email", 200,
                                    "Confirmation code sent successfully",
                                    <<Item(email, encoded_jwt, "sent")>>,
                                    <<email>>)
                             ELSE BatchResponse("send_code_to_email", 500,
                                    "Failed to send email",
                                    <<Item(email, encoded_jwt, "send_raised")>>,
                                    <<email>>),
                             None, hackathon_id)
                /\ UNCHANGED <<hackathons, emails, req, history>>

(* ---------------------- upload_emails_to_hackathon -------------------- *)

Whitespace == {" ", "\n"}

\* str.strip(): leading and trailing whitespace removed.
RECURSIVE StripChars(_)
StripChars(chars) ==
    IF chars = <<>> THEN <<>>
    ELSE IF Head(chars) \in Whitespace THEN StripChars(Tail(chars))
    ELSE IF chars[Len(chars)] \in Whitespace
    THEN StripChars(SubSeq(chars, 1, Len(chars) - 1))
    ELSE chars

strip(s) == Str(StripChars(s.chars))

\* Rows csv.reader yields: a blank line gives the empty row [], a line
\* holding "" gives the row [''].
CsvRows == {<<>>, <<Str(<<>>)>>, <<Str(<<" ", "b", " ">>)>>, <<Str(<<"B">>)>>}

\* The decoded texts of uploaded CSV files, as the rows csv.reader yields.
CsvTexts == BoundedSeq(CsvRows, MaxBatch)

\* The rows loop inside the try block: db.raised is set by the IndexError
\* of row[0] on an empty row; the rows before it are already committed.
RECURSIVE UploadLoop(_, _, _, _)
UploadLoop(db, hid, rows, k) ==
    IF k > Len(rows) THEN db
    ELSE
        LET row == rows[k]
        IN  IF Len(row) = 0
            THEN [db EXCEPT !.raised = TRUE]
            ELSE UploadLoop(GetOrCreateAndLink(db, hid, strip(row[1])),
                            hid, rows, k + 1)

UploadEmailsToHackathon ==
    /\ last = NoResponse
    /\ \E user \in Accounts, hackathon_id \in HackathonIds :
        IF ~Exists(hackathon_id)
        THEN /\ last' = Response("upload_emails_to_hackathon", 404,
                                 "Not Found", <<>>)
             /\ UNCHANGED <<hackathons, emails, tokens, outbox, now, req, history>>
        ELSE IF NotCreator(hackathons[hackathon_id], user)
        THEN /\ last' = From(Response("upload_emails_to_hackathon", 403,
                    "You are not the creator or cannot edit this hackathon",
                    <<>>), user, hackathon_id)
             /\ UNCHANGED <<hackathons, emails, tokens, outbox, now, req, history>>
        ELSE \E decodes \in BOOLEAN :
        IF ~decodes
        THEN \* csv_file.read().decode("utf-8-sig") raises UnicodeDecodeError
             /\ last' = From(Response("upload_emails_to_hackathon", 400,
                                "Failed to process CSV file", <<>>),
                             user, hackathon_id)
             /\ UNCHANGED <<hackathons, emails, tokens, outbox, now, req, history>>
        ELSE \E rows \in CsvTexts :
            LET db == UploadLoop([raised |-> FALSE] @@ DB, hackathon_id,
                                 rows, 1)
            IN  /\ Commit(db)
                /\ last' = From(
                           IF db.raised
                           THEN BatchResponse("upload_emails_to_hackathon",
                                    400, "Failed to process CSV file", <<>>,
                                    rows)
                           ELSE BatchResponse("upload_emails_to_hackathon",
                                    200, "Emails successfully uploaded", <<>>,
                                    rows),
                           user, hackathon_id)
                /\ UNCHANGED <<req, history>>

(* ----------------------------- join_hackathon ------------------------- *)

\* A token string no handler ever issued.
Forged == [forged |-> TRUE]

StoredTokens == {tokens[i].token : i \in 1..Len(tokens)}

\* Rows of the Token table holding this token string.
TokenRows(token) == {i \in 1..Len(tokens) : tokens[i].token = token}

\* The assignment left out: the row is saved as it was read.
Invalidate_Noop(row) == row

\* tkn.is_active = False
Invalidate(row) == [row EXCEPT !.is_active = FALSE]

JoinResponse(user, hackathon_id, tkn, first, status) ==
    Response("join_hackathon", status, "",
             <<[user |-> user, hackathon_id |-> hackathon_id, tkn |-> tkn,
                first |-> first]>>)

\* tkn = get_object_or_404(Token, token=token); if not tkn.is_active:
\* return 403.  The request arrives and reads the token row into its own
\* copy; the test reads that copy.  Workers are interchangeable: a request
\* is taken by the lowest idle one.
JoinGetToken(r) ==
    /\ last = NoResponse
    /\ req[r].pc = "idle"
    /\ \A q \in Requests : q < r => req[q].pc # "idle"
    /\ \E user \in Accounts, hackathon_id \in HackathonIds,
          token \in StoredTokens \cup {Forged} :
        LET rows == TokenRows(token)
        IN  IF rows = {}
            THEN /\ last' = Response("join_hackathon", 404, "Not Found", <<>>)
                 /\ UNCHANGED <<req, presented>>
            ELSE \E id \in rows :
                LET arrived == [pc |-> "have_token", user |-> user,
                                hackathon_id |-> hackathon_id,
                                token |-> token, tkn |-> id,
                                active |-> tokens[id].is_active,
                                first |-> id \notin presented]
                IN  /\ presented' = presented \cup {id}
                    /\ IF ~arrived.active
                       THEN /\ last' = JoinResponse(user, hackathon_id, id,
                                                    arrived.first, 403)
                            /\ UNCHANGED <<req, history>>
                       ELSE /\ req' = [req EXCEPT ![r] = arrived]
                            /\ UNCHANGED last
    /\ UNCHANGED <<hackathons, emails, tokens, outbox, now, joined>>

\* else: tkn.is_active = False; tkn.save().  save() writes the request's
\* copy of the row back.
JoinInvalidate(r) ==
    /\ last = NoResponse
    /\ req[r].pc = "have_token"
    /\ tokens' = [tokens EXCEPT ![req[r].tkn] =
            Invalidate([token |-> req[r].token, is_active |-> req[r].active])]
    /\ req' = [req EXCEPT ![r].pc = "invalidated", ![r].active = FALSE]
    /\ UNCHANGED <<hackathons, emails, outbox, now, last, presented, joined>>

\* hackathon = get_object_or_404(Hackathon, id=hackathon_id);
\* hackathon.participants.add(user); hackathon.save(); return 200
JoinAddParticipant(r) ==
    /\ last = NoResponse
    /\ req[r].pc = "invalidated"
    /\ IF ~Exists(req[r].hackathon_id)
       THEN /\ last' = JoinResponse(req[r].user, req[r].hackathon_id,
                                     req[r].tkn, req[r].first, 404)
            /\ UNCHANGED <<hackathons, joined>>
       ELSE /\ hackathons' = [hackathons EXCEPT
                    ![req[r].hackathon_id].participants = @ \cup {req[r].user}]
            /\ joined' = joined \cup
                    {[tkn |-> req[r].tkn, user |-> req[r].user,
                      hackathon_id |-> req[r].hackathon_id, request |-> r]}
            /\ last' = JoinResponse(req[r].user, req[r].hackathon_id,
                                     req[r].tkn, req[r].first, 200)
    /\ req' = [req EXCEPT ![r] = IdleRequest]
    /\ UNCHANGED <<emails, tokens, outbox, now, presented>>

(* ----------------------------- the framework -------------------------- *)

\* The framework sends the returned response to the client.  Every handler
\* step waits for it, so that `last` holds each response in one state only.
SendResponse ==
    /\ last # NoResponse
    /\ last' = NoResponse
    /\ UNCHANGED <<hackathons, emails, tokens, outbox, now, req, history>>

(* ---------------------------- specifications -------------------------- *)

\* No join_hackathon request is being served.
NoRequestInFlight == \A q \in Requests : req[q].pc = "idle"

\* Every handler; join_hackathon requests do not overlap each other (they
\* still interleave with the other handlers between their statements).
Next ==
    \/ CreateHackathon
    \/ AddUserToHackathon
    \/ LoadTxt
    \/ SendCodeToEmail
    \/ UploadEmailsToHackathon
    \/ \E r \in Requests : NoRequestInFlight /\ JoinGetToken(r)
    \/ \E r \in Requests : JoinInvalidate(r)
    \/ \E r \in Requests : JoinAddParticipant(r)
    \/ SendResponse

Spec == Init /\ [][Next]_vars

\* Concurrent join_hackathon requests, one per worker, against the tokens
\* that create_hackathon and add_user_to_hackathon issue.
NextRace ==
    \/ CreateHackathon
    \/ AddUserToHackathon
    \/ \E r \in Requests : JoinGetToken(r)
    \/ \E r \in Requests : JoinInvalidate(r)
    \/ \E r \in Requests : JoinAddParticipant(r)
    \/ SendResponse

SpecRace == Init /\ [][NextRace]_vars

(* ------------------------------ properties ---------------------------- *)

\* The event id a token's claims carry (create_hackathon and load_txt write
\* "id", add_user_to_hackathon writes "hackathon_id"); 0 for a
\* confirmation-code token, which carries none.
TokenEvent(token) ==
    IF "id" \in DOMAIN token THEN token.id
    ELSE IF "hackathon_id" \in DOMAIN token THEN token.hackathon_id
    ELSE 0

TokenRowIds == 1..Len(tokens)

Redemptions(i) == {j \in joined : j.tkn = i}

\* A join_hackathon response about a stored token is waiting to be sent.
JoinAnswered == last.op = "join_hackathon" /\ last.items # <<>>

Stored(token) == \E i \in TokenRowIds : tokens[i].token = token

MailedTo(token) == \E m \in 1..Len(outbox) : outbox[m].token = token

\* C1: of the concurrent join_hackathon requests that present one token, one
\* is answered 200 (redeemed) and the others 403: no token row is redeemed
\* by two requests.
C1_OneRedemptionPerToken ==
    \A i \in TokenRowIds : Cardinality(Redemptions(i)) <= 1

C3_WrongEventRejected ==
    (/\ JoinAnswered
     /\ last.items[1].first
     /\ TokenEvent(tokens[last.items[1].tkn].token) # 0
     /\ last.items[1].hackathon_id #
            TokenEvent(tokens[last.items[1].tkn].token))
    => /\ last.status # 200
       /\ tokens[last.items[1].tkn].is_active

\* C4: the account a redemption adds is the account of the email the token
\* was issued to.
C4_RecipientIsAdded ==
    \A j \in joined : j.user = AccountByEmail(tokens[j.tkn].token.email)

\* C5: a token is inactive only if a request redeemed it (200) or a request
\* that has just cleared the flag has yet to add its participant.
C5_InactiveOnlyByRedemption ==
    \A i \in TokenRowIds :
        ~tokens[i].is_active =>
            \/ Redemptions(i) # {}
            \/ \E r \in Requests : req[r].pc = "invalidated" /\ req[r].tkn = i

\* C6: no step deletes a token row, changes a row's token string or makes an
\* inactive row active.
C6_TokensMonotonic ==
    [][\A i \in TokenRowIds :
          /\ i <= Len(tokens')
          /\ tokens'[i].token = tokens[i].token
          /\ ~tokens[i].is_active => ~tokens'[i].is_active]_vars

\* An inactive token row is followed by a row issued later.
C6_Witness ==
    \E i, k \in TokenRowIds : i < k /\ ~tokens[i].is_active

\* C7: every send_mail call carries a stored token, and no send_mail call
\* was made for a recipient whose Token.objects.create raised.
C7_MailOnlyAfterPersist ==
    /\ \A m \in 1..Len(outbox) : Stored(outbox[m].token)
    /\ \A k \in 1..Len(last.items) :
            (last.op # "join_hackathon"
                /\ last.items[k].outcome = "create_raised")
            => ~Stored(last.items[k].token) /\ ~MailedTo(last.items[k].token)

\* A handler has returned after create raised for one recipient and mail
\* went out for another.
C7_Witness ==
    /\ last.op # "join_hackathon"
    /\ \E k \in 1..Len(last.items) : last.items[k].outcome = "create_raised"
    /\ \E k \in 1..Len(last.items) : last.items[k].outcome = "sent"

\* The response says that delivery failed.
ReportsDeliveryFailure(response) ==
    response.status = 500 /\ response.details = "Failed to send email"

\* C8: when send_mail raises after the token was stored, the token stays
\* stored and active and the response reports a delivery failure; when
\* Token.objects.create raises, the response reports something else.
C8_DeliveryFailureReported ==
    \A k \in 1..Len(last.items) :
        last.op # "join_hackathon" =>
            /\ last.items[k].outcome = "send_raised" =>
                    /\ \E i \in TokenRowIds :
                            /\ tokens[i].token = last.items[k].token
                            /\ tokens[i].is_active
                    /\ ReportsDeliveryFailure(last)
            /\ last.items[k].outcome = "create_raised" =>
                    ~ReportsDeliveryFailure(last)

Position(seq, token) == CHOOSE m \in 1..Len(seq) : seq[m].token = token

Issued(item) == item.outcome \in {"sent", "send_raised"}

\* C9: when create or send_mail raised for an item of a batch, the handler
\* still reached every item of the batch: each item that is not the
\* creator's had its create attempted and, once stored, its mail attempted,
\* and rows and mails follow the order of the batch.
C9_BatchNeverAborts ==
    (/\ last.op \in {"create_hackathon", "load_txt"}
     /\ \E k \in 1..Len(last.items) :
            last.items[k].outcome \in {"create_raised", "send_raised"})
    => /\ Len(last.items) = Len(last.batch)
       /\ \A k \in 1..Len(last.batch) :
            /\ last.items[k].email = last.batch[k]
            /\ last.items[k].outcome \in
                    {"skipped_creator", "create_raised", "sent", "send_raised"}
            /\ Issued(last.items[k]) =>
                    /\ Stored(last.items[k].token)
                    /\ MailedTo(last.items[k].token)
       /\ \A k, l \in 1..Len(last.batch) :
            (k < l /\ Issued(last.items[k]) /\ Issued(last.items[l])) =>
                /\ Position(tokens, last.items[k].token)
                        < Position(tokens, last.items[l].token)
                /\ Position(outbox, last.items[k].token)
                        < Position(outbox, last.items[l].token)

\* In one batch send_mail raised for the first item and the second item was
\* stored and mailed.
C9_Witness ==
    /\ last.op = "create_hackathon"
    /\ Len(last.items) = 2
    /\ last.items[1].outcome = "send_raised"
    /\ last.items[2].outcome = "sent"

\* C10: an upload answered "Failed to process CSV file" has created no Email
\* row and no link between an email and the hackathon.
C10_FailedUploadLeavesNothing ==
    [][(/\ last'.op = "upload_emails_to_hackathon"
        /\ last'.status = 400)
       => emails' = emails /\ hackathons' = hackathons]_vars

\* The hackathon an invitation token was issued for.
InviteEvent(token) == hackathons[TokenEvent(token)]

\* C11: no stored invitation token has the creator of its own event as
\* recipient, and no invitation mail was sent to the creator of the event it
\* invites to.
C11_NoTokenForCreator ==
    /\ \A i \in TokenRowIds :
            TokenEvent(tokens[i].token) # 0 =>
                tokens[i].token.email #
                    AccountEmail(InviteEvent(tokens[i].token).creator)
    /\ \A m \in 1..Len(outbox) :
            TokenEvent(outbox[m].token) # 0 =>
                outbox[m].to # AccountEmail(InviteEvent(outbox[m].token).creator)

\* create_hackathon was given the creator's email and another one: it took
\* no recipient for the first and mailed the second.
C11_Witness ==
    /\ last.op = "create_hackathon"
    /\ \E k \in 1..Len(last.items) : last.items[k].outcome = "skipped_creator"
    /\ \E k \in 1..Len(last.items) : last.items[k].outcome = "sent"

\* The address a line of the file holds: the line without its line end.
LineAddress(line) == strip(line)

\* C12: a load_txt request of the event's creator stores, for every line of
\* the file whose address is not the creator's, a new token and mails it to
\* that address.
C12_CreatorFileIssuesTokens ==
    [][(/\ last'.op = "load_txt"
        /\ Exists(last'.hackathon_id)
        /\ last'.user = hackathons[last'.hackathon_id].creator)
       => \A k \in 1..Len(last'.batch) :
            LineAddress(last'.batch[k]) # AccountEmail(last'.user)
            => \E m \in (Len(outbox) + 1)..Len(outbox') :
                    /\ outbox'[m].to = LineAddress(last'.batch[k])
                    /\ \E i \in (Len(tokens) + 1)..Len(tokens') :
                            tokens'[i].token = outbox'[m].token]_vars

\* str.lower() on the letters the inputs hold.
Lower(c) == IF c = "A" THEN "a" ELSE IF c = "B" THEN "b" ELSE c

\* An email trimmed and lower-cased.
Normalize(s) == Str([k \in 1..Len(StripChars(s.chars)) |->
                        Lower(StripChars(s.chars)[k])])

\* The normalized emails a batch request carried.
Candidates(response) ==
    IF response.op = "upload_emails_to_hackathon"
    THEN {Normalize(response.batch[k][1]) :
            k \in {j \in 1..Len(response.batch) : Len(response.batch[j]) > 0}}
    ELSE IF response.op = "load_txt"
    THEN {Normalize(response.batch[k]) : k \in 1..Len(response.batch)}
    ELSE {}

\* The account of this normalized email has joined the event.
IsParticipant(hackathon_id, c) ==
    /\ Exists(hackathon_id)
    /\ AccountByEmail(c) \in hackathons[hackathon_id].participants

C14_OneRecordPerNormalizedEmail ==
    \A e1, e2 \in emails : Normalize(e1) = Normalize(e2) => e1 = e2

\* C15: no Email row holds the empty string and no event is linked to one.
C15_NoEmptyRecipient ==
    /\ Str(<<>>) \notin emails
    /\ \A h \in 1..Len(hackathons) : Str(<<>>) \notin hackathons[h].emails

\* C16: a create_hackathon request that skips the creator's email has
\* created no Email row for it and has not linked it to the new event.
C16_SelfInviteTouchesNothing ==
    [][last'.op = "create_hackathon" =>
        \A k \in 1..Len(last'.items) :
            last'.items[k].outcome = "skipped_creator" =>
                /\ last'.items[k].email \in emails'
                        => last'.items[k].email \in emails
                /\ last'.items[k].email
                        \notin hackathons'[Len(hackathons')].emails]_vars

\* C17: an add_user_to_hackathon or upload_emails_to_hackathon request of a
\* user who is not the creator of the event is answered 403 and changes no
\* Email row, no event, no token and sends no mail.
C17_NonCreatorRefused ==
    [][(/\ last'.op \in {"add_user_to_hackathon",
                          "upload_emails_to_hackathon"}
        /\ Exists(last'.hackathon_id)
        /\ last'.user # hackathons[last'.hackathon_id].creator)
       => /\ last'.status = 403
          /\ UNCHANGED <<emails, hackathons, tokens, outbox>>]_vars

\* A user who is not the creator of the event has been answered 403.
C17_Witness ==
    /\ last.op \in {"add_user_to_hackathon", "upload_emails_to_hackathon"}
    /\ Exists(last.hackathon_id)
    /\ last.user # hackathons[last.hackathon_id].creator
    /\ last.status = 403

====
